---------------------------- MODULE Spec2Model ----------------------------
(***************************************************************************)
(* Hybrid genetic algorithm for the VRPTW (src/src/genetic_algorithm.py),  *)
(* its Solomon-I1 constructor (src/src/heuristics.py) and the Customer /   *)
(* Vehicle / VRPTWInstance classes (src/src/utils.py).                     *)
(*                                                                         *)
(* Numbers are integers.  The instances below place the customers so that  *)
(* every Euclidean distance between two locations is a whole number, so    *)
(* that sqrt is exact; Solomon's alpha, mu and lambda are drawn from the   *)
(* whole numbers of their ranges.  A route is a sequence of customer ids   *)
(* (the code keeps references to the immutable Customer objects).          *)
(* Vehicle.id and Vehicle.max_route_time are never read by the solver and  *)
(* are left out; every Vehicle is built with instance.vehicle_capacity.    *)
(***************************************************************************)
EXTENDS Integers, Sequences, FiniteSets, TLC

VARIABLES
    instance,              \* self.instance (VRPTWInstance)
    config,                \* pop_size, elite_size, generations and the rates
    population,            \* self.population
    best_solution,         \* self.best_solution: <<>> is None, <<s>> is s
    best_fitness_history,  \* self.best_fitness_history
    avg_fitness_history,   \* self.avg_fitness_history, each mean as <<sum, len>>
    generation,            \* self.generation
    stagnation_counter,    \* self.stagnation_counter
    gen,                   \* run(): the next value of range(self.generations)
    pc,                    \* position inside run()
    sol,                   \* operator bench: the current solution
    mate,                  \* operator bench: a second parent
    last                   \* operator bench: the last operator call

vars == <<instance, config, population, best_solution, best_fitness_history,
          avg_fitness_history, generation, stagnation_counter, gen, pc,
          sol, mate, last>>

runVars == <<config, population, best_solution, best_fitness_history,
             avg_fitness_history, generation, stagnation_counter, gen>>

benchVars == <<sol, mate, last>>

---------------------------------------------------------------------------
(* Sequence helpers (Python list operations)                               *)

Max(a, b) == IF a >= b THEN a ELSE b

Min(a, b) == IF a <= b THEN a ELSE b

\* list.insert(pos, x), pos counted from 0
InsertAt(s, pos, x) == SubSeq(s, 1, pos) \o <<x>> \o SubSeq(s, pos + 1, Len(s))

\* a pop that leaves the list as it was
RemoveAt_kept(s, i) == s

\* list.pop(i) leaves this list, i counted from 0
RemoveAt(s, i) == SubSeq(s, 1, i) \o SubSeq(s, i + 2, Len(s))

\* list.remove(x): drops the first occurrence
RECURSIVE RemoveFirst(_, _)
RemoveFirst(s, x) ==
    IF s = <<>> THEN <<>>
    ELSE IF Head(s) = x THEN Tail(s)
    ELSE <<Head(s)>> \o RemoveFirst(Tail(s), x)

\* s[::-1]
RECURSIVE Reverse(_)
Reverse(s) == IF s = <<>> THEN <<>> ELSE Reverse(Tail(s)) \o <<Head(s)>>

\* [Op(x) for x in s], built as a list
RECURSIVE MapSeq(_, _)
MapSeq(Op(_), s) ==
    IF s = <<>> THEN <<>> ELSE <<Op(Head(s))>> \o MapSeq(Op, Tail(s))

RECURSIVE SumSeq(_)
SumSeq(s) == IF s = <<>> THEN 0 ELSE Head(s) + SumSeq(Tail(s))

Range(s) == {s[i] : i \in 1..Len(s)}

\* integer square root; exact on the perfect squares the instances produce
MaxSquare == 400

SqrtTable == [n \in 0..MaxSquare |-> CHOOSE r \in 0..n : r * r <= n /\ (r + 1) * (r + 1) > n]

Isqrt(n) == SqrtTable[n]

---------------------------------------------------------------------------
(* utils.py: Customer, Vehicle                                             *)

Customer(id, x, y, demand, ready_time, due_time, service_time) ==
    [id |-> id, x |-> x, y |-> y, demand |-> demand, ready_time |-> ready_time,
     due_time |-> due_time, service_time |-> service_time]

distance_to(a, b) == Isqrt((a.x - b.x) * (a.x - b.x) + (a.y - b.y) * (a.y - b.y))

\* the Customer object a route entry refers to
Cust(id) ==
    instance.customers[CHOOSE i \in 1..Len(instance.customers) :
                         instance.customers[i].id = id]

CustomerIds == {c.id : c \in Range(instance.customers)}

Vehicle ==
    [route |-> <<>>, load |-> 0, total_distance |-> 0, total_time |-> 0]

add_customer(v, id) ==
    [v EXCEPT !.route = Append(v.route, id), !.load = v.load + Cust(id).demand]

\* distance of depot -> route -> depot legs, as calculate_metrics sums them
RECURSIVE LegsFrom(_, _)
LegsFrom(loc, route) ==
    IF route = <<>> THEN distance_to(loc, instance.depot)
    ELSE distance_to(loc, Cust(Head(route))) + LegsFrom(Cust(Head(route)), Tail(route))

\* the clock of calculate_metrics: travel, wait for ready_time, serve
RECURSIVE ClockFrom(_, _, _)
ClockFrom(time, loc, route) ==
    IF route = <<>> THEN time + distance_to(loc, instance.depot)
    ELSE LET c == Cust(Head(route))
             t == time + distance_to(loc, c)
         IN  ClockFrom(Max(t, c.ready_time) + c.service_time, c, Tail(route))

\* a vehicle whose metrics are left as they were
calculate_metrics_stale(v) == v

calculate_metrics(v) ==
    IF v.route = <<>>
    THEN [v EXCEPT !.total_distance = 0, !.total_time = 0]
    ELSE [v EXCEPT !.total_distance = LegsFrom(instance.depot, v.route),
                   !.total_time = ClockFrom(0, instance.depot, v.route)]

---------------------------------------------------------------------------
(* genetic_algorithm.py: Solution                                          *)

\* a lateness that also charges an arrival before ready_time
RECURSIVE LatenessOrWaitFrom(_, _, _)
LatenessOrWaitFrom(current_time, current_loc, route) ==
    IF route = <<>> THEN 0
    ELSE LET customer == Cust(Head(route))
             arrival_time == current_time + distance_to(current_loc, customer)
             late == IF arrival_time > customer.due_time
                     THEN (arrival_time - customer.due_time) * 1000
                     ELSE IF arrival_time < customer.ready_time
                     THEN (customer.ready_time - arrival_time) * 1000 ELSE 0
             service_start == Max(arrival_time, customer.ready_time)
         IN  late + LatenessOrWaitFrom(service_start + customer.service_time,
                                       customer, Tail(route))

\* lateness part of the penalty, one route (calculate_fitness lines 61-74)
RECURSIVE LatenessFrom(_, _, _)
LatenessFrom(current_time, current_loc, route) ==
    IF route = <<>> THEN 0
    ELSE LET customer == Cust(Head(route))
             arrival_time == current_time + distance_to(current_loc, customer)
             late == IF arrival_time > customer.due_time
                     THEN (arrival_time - customer.due_time) * 1000 ELSE 0
             service_start == Max(arrival_time, customer.ready_time)
         IN  late + LatenessFrom(service_start + customer.service_time,
                                 customer, Tail(route))

\* penalty of one vehicle: cached load against capacity, then lateness
VehiclePenalty(v) ==
    (IF v.load > instance.vehicle_capacity
     THEN (v.load - instance.vehicle_capacity) * 1000 ELSE 0)
    + LatenessFrom(0, instance.depot, v.route)

Penalty(vehicles) == SumSeq(MapSeq(VehiclePenalty, vehicles))

NonEmptyCount(vehicles) == Cardinality({i \in 1..Len(vehicles) : vehicles[i].route # <<>>})

calculate_fitness(vehicles) ==
    LET total_distance == SumSeq(MapSeq(LAMBDA v : v.total_distance, vehicles))
        total_time == SumSeq(MapSeq(LAMBDA v : v.total_time, vehicles))
        num_vehicles == NonEmptyCount(vehicles)
        penalty == Penalty(vehicles)
    IN  [vehicles |-> vehicles,
         total_distance |-> total_distance,
         total_time |-> total_time,
         num_vehicles |-> num_vehicles,
         feasible |-> (penalty = 0),
         fitness |-> 1 * total_distance + 1000 * num_vehicles + 100000 * penalty]

\* Solution.__init__ ends in calculate_fitness()
Solution(vehicles) == calculate_fitness(vehicles)

\* Solution.copy: routes, loads and cached metrics are copied, fitness recomputed
copy(s) ==
    Solution(MapSeq(LAMBDA v : [route |-> v.route,
                                load |-> v.load,
                                total_distance |-> v.total_distance,
                                total_time |-> v.total_time], s.vehicles))

\* get_all_customers, as ids
RECURSIVE FlattenRoutes(_)
FlattenRoutes(vehicles) ==
    IF vehicles = <<>> THEN <<>>
    ELSE Head(vehicles).route \o FlattenRoutes(Tail(vehicles))

get_all_customers(s) == FlattenRoutes(s.vehicles)

---------------------------------------------------------------------------
(* genetic_algorithm.py: feasibility and insertion kernel                  *)

RECURSIVE DemandSum(_)
DemandSum(route) ==
    IF route = <<>> THEN 0 ELSE Cust(Head(route)).demand + DemandSum(Tail(route))

\* the time-window loop of _is_route_feasible (lines 372-386)
RECURSIVE ArrivalsOk(_, _, _)
ArrivalsOk(current_time, current_loc, route) ==
    IF route = <<>> THEN TRUE
    ELSE LET customer == Cust(Head(route))
             arrival_time == current_time + distance_to(current_loc, customer)
         IN  IF arrival_time > customer.due_time THEN FALSE
             ELSE ArrivalsOk(Max(arrival_time, customer.ready_time)
                               + customer.service_time, customer, Tail(route))

is_route_feasible(route, capacity) ==
    IF DemandSum(route) > capacity THEN FALSE
    ELSE ArrivalsOk(0, instance.depot, route)

calculate_insertion_cost(route, customer, position) ==
    LET prev == IF position = 0 THEN instance.depot ELSE Cust(route[position])
        next_c == IF position >= Len(route) THEN instance.depot
                  ELSE Cust(route[position + 1])
        cost_before == distance_to(prev, next_c)
        cost_after == distance_to(prev, Cust(customer)) + distance_to(Cust(customer), next_c)
    IN  cost_after - cost_before

calculate_route_distance(route) ==
    IF route = <<>> THEN 0 ELSE LegsFrom(instance.depot, route)

---------------------------------------------------------------------------
(* heuristics.py: SolomonInsertion.  alpha, mu, lambda_param are the       *)
(* attributes initialize_population sets before each construct_solution.   *)

calculate_c1(route, customer, position, mu) ==
    LET prev_customer == IF position = 0 THEN instance.depot ELSE Cust(route[position])
        next_customer == IF position >= Len(route) THEN instance.depot
                         ELSE Cust(route[position + 1])
        d_iu == distance_to(prev_customer, Cust(customer))
        d_uj == distance_to(Cust(customer), next_customer)
        d_ij == distance_to(prev_customer, next_customer)
    IN  d_iu + d_uj - mu * d_ij

\* clock after serving route[0..position-1] (calculate_c2 lines 76-88)
RECURSIVE ServedUntil(_, _, _)
ServedUntil(current_time, current_loc, route) ==
    IF route = <<>> THEN <<current_time, current_loc>>
    ELSE LET c == Cust(Head(route))
             t == current_time + distance_to(current_loc, c)
         IN  ServedUntil(Max(t, c.ready_time) + c.service_time, c, Tail(route))

calculate_c2(route, customer, position) ==
    LET at == ServedUntil(0, instance.depot, SubSeq(route, 1, position))
        arrival_time == at[1] + distance_to(at[2], Cust(customer))
    IN  Cust(customer).ready_time - arrival_time

solomon_insertion_cost(route, customer, position, alpha, mu, lambda_param) ==
    alpha * calculate_c1(route, customer, position, mu)
    + lambda_param * calculate_c2(route, customer, position)

\* the loop of _is_feasible_insertion, ending in the return-to-depot check
RECURSIVE InsertionTimesOk(_, _, _)
InsertionTimesOk(current_time, current_loc, test_route) ==
    IF test_route = <<>>
    THEN ~(current_time + distance_to(current_loc, instance.depot) > instance.depot.due_time)
    ELSE LET c == Cust(Head(test_route))
             arrival_time == current_time + distance_to(current_loc, c)
         IN  IF arrival_time > c.due_time THEN FALSE
             ELSE InsertionTimesOk(Max(arrival_time, c.ready_time) + c.service_time,
                                   c, Tail(test_route))

\* an insertion test that lets every position pass
is_feasible_insertion_unchecked(route, customer, position) == TRUE

is_feasible_insertion(route, customer, position) ==
    InsertionTimesOk(0, instance.depot, InsertAt(route, position, customer))

\* find_best_insertion: the scan over pos = from..len(route); best is
\* [position, cost, found], found = FALSE standing for cost = inf
RECURSIVE FindBestFrom(_, _, _, _, _, _, _, _)
FindBestFrom(route, customer, current_load, pos, best, alpha, mu, lambda_param) ==
    IF pos > Len(route) THEN best
    ELSE LET skip == \/ current_load + Cust(customer).demand > instance.vehicle_capacity
                     \/ ~is_feasible_insertion(route, customer, pos)
             cost == solomon_insertion_cost(route, customer, pos, alpha, mu, lambda_param)
             better == ~best.found \/ cost < best.cost
         IN  FindBestFrom(route, customer, current_load, pos + 1,
                          IF ~skip /\ better
                          THEN [position |-> pos, cost |-> cost, found |-> TRUE]
                          ELSE best,
                          alpha, mu, lambda_param)

find_best_insertion(route, customer, current_load, alpha, mu, lambda_param) ==
    FindBestFrom(route, customer, current_load, 0,
                 [position |-> -1, cost |-> 0, found |-> FALSE], alpha, mu, lambda_param)

\* max(unrouted, key = distance from depot): the first maximal element
RECURSIVE FirstFarthest(_, _)
FirstFarthest(unrouted, bestSoFar) ==
    IF unrouted = <<>> THEN bestSoFar
    ELSE FirstFarthest(Tail(unrouted),
            IF distance_to(instance.depot, Cust(Head(unrouted)))
                 > distance_to(instance.depot, Cust(bestSoFar))
            THEN Head(unrouted) ELSE bestSoFar)

seed_customer(unrouted) == FirstFarthest(Tail(unrouted), Head(unrouted))

\* a scan that keeps the first customer that can be inserted
BestCustomerFrom_first(v, todo, best, alpha, mu, lambda_param) ==
    LET ok == SelectSeq(todo, LAMBDA u :
                  find_best_insertion(v.route, u, v.load, alpha, mu, lambda_param).position # -1)
    IN  IF ok = <<>> THEN best
        ELSE LET r == find_best_insertion(v.route, ok[1], v.load, alpha, mu, lambda_param)
             IN  [customer |-> ok[1], position |-> r.position, cost |-> r.cost, found |-> TRUE]

\* the "for customer in unrouted" scan (lines 213-225); best is
\* [customer, position, cost, found]
RECURSIVE BestCustomerFrom(_, _, _, _, _, _)
BestCustomerFrom(v, todo, best, alpha, mu, lambda_param) ==
    IF todo = <<>> THEN best
    ELSE LET r == find_best_insertion(v.route, Head(todo), v.load, alpha, mu, lambda_param)
             take == r.position # -1 /\ (~best.found \/ r.cost < best.cost)
         IN  BestCustomerFrom(v, Tail(todo),
                 IF take THEN [customer |-> Head(todo), position |-> r.position,
                               cost |-> r.cost, found |-> TRUE]
                 ELSE best, alpha, mu, lambda_param)

\* the "while unrouted" insertion loop of one vehicle (lines 207-233);
\* yields <<vehicle, unrouted>>
RECURSIVE FillVehicle(_, _, _, _, _)
FillVehicle(v, unrouted, alpha, mu, lambda_param) ==
    IF unrouted = <<>> THEN <<v, unrouted>>
    ELSE LET best == BestCustomerFrom(v, unrouted,
                        [customer |-> 0, position |-> -1, cost |-> 0, found |-> FALSE],
                        alpha, mu, lambda_param)
         IN  IF best.found
             THEN FillVehicle([v EXCEPT !.route = InsertAt(v.route, best.position, best.customer),
                                        !.load = v.load + Cust(best.customer).demand],
                              RemoveFirst(unrouted, best.customer), alpha, mu, lambda_param)
             ELSE <<v, unrouted>>

\* the outer loop of construct_solution (lines 191-243); yields
\* [vehicles, unrouted]
RECURSIVE SolomonLoop(_, _, _, _, _, _)
SolomonLoop(vehicles, unrouted, vehicle_id, alpha, mu, lambda_param) ==
    IF unrouted = <<>> \/ ~(vehicle_id < instance.num_vehicles)
    THEN [vehicles |-> vehicles, unrouted |-> unrouted]
    ELSE LET seed == seed_customer(unrouted)
             seeded == [Vehicle EXCEPT !.route = <<seed>>, !.load = Cust(seed).demand]
             filled == FillVehicle(seeded, RemoveFirst(unrouted, seed),
                                   alpha, mu, lambda_param)
         IN  SolomonLoop(Append(vehicles, calculate_metrics(filled[1])), filled[2],
                         vehicle_id + 1, alpha, mu, lambda_param)

\* the states in which the insertion loop of one vehicle looks for its next
\* customer (line 207), as [v, unrouted]
RECURSIVE FillSteps(_, _, _, _, _)
FillSteps(v, unrouted, alpha, mu, lambda_param) ==
    IF unrouted = <<>> THEN {}
    ELSE LET best == BestCustomerFrom(v, unrouted,
                        [customer |-> 0, position |-> -1, cost |-> 0, found |-> FALSE],
                        alpha, mu, lambda_param)
         IN  {[v |-> v, unrouted |-> unrouted]}
             \cup IF best.found
                  THEN FillSteps([v EXCEPT !.route = InsertAt(v.route, best.position, best.customer),
                                           !.load = v.load + Cust(best.customer).demand],
                                 RemoveFirst(unrouted, best.customer), alpha, mu, lambda_param)
                  ELSE {}

\* the same for every vehicle construct_solution opens
RECURSIVE SolomonSteps(_, _, _, _, _)
SolomonSteps(unrouted, vehicle_id, alpha, mu, lambda_param) ==
    IF unrouted = <<>> \/ ~(vehicle_id < instance.num_vehicles) THEN {}
    ELSE LET seed == seed_customer(unrouted)
             seeded == [Vehicle EXCEPT !.route = <<seed>>, !.load = Cust(seed).demand]
             filled == FillVehicle(seeded, RemoveFirst(unrouted, seed),
                                   alpha, mu, lambda_param)
         IN  FillSteps(seeded, RemoveFirst(unrouted, seed), alpha, mu, lambda_param)
             \cup SolomonSteps(filled[2], vehicle_id + 1, alpha, mu, lambda_param)

InstanceIds == MapSeq(LAMBDA c : c.id, instance.customers)

construct_solution(alpha, mu, lambda_param) ==
    SolomonLoop(<<>>, InstanceIds, 0, alpha, mu, lambda_param).vehicles

\* the customers construct_solution reports as not routed
solomon_unrouted(alpha, mu, lambda_param) ==
    SolomonLoop(<<>>, InstanceIds, 0, alpha, mu, lambda_param).unrouted

---------------------------------------------------------------------------
(* genetic_algorithm.py: construction and variation operators.  An         *)
(* operator that draws random numbers takes the draws as its last          *)
(* argument; the set of draws numpy can deliver is defined beside it.      *)

\* np.random.choice(candidates, p = probs): every weight 1/(d + 0.1) is
\* positive, so every capacity-feasible candidate can be drawn.  Yields the
\* set of <<vehicle, unrouted>> the inner loop (lines 223-240) can end with.
RECURSIVE GreedyFill(_, _)
GreedyFill(vehicle, unrouted) ==
    LET candidates == {c \in unrouted :
                         vehicle.load + Cust(c).demand <= instance.vehicle_capacity}
    IN  IF candidates = {} THEN {<<vehicle, unrouted>>}
        ELSE UNION {GreedyFill(add_customer(vehicle, chosen), unrouted \ {chosen}) :
                      chosen \in candidates}

\* the outer loop of _random_greedy_construction (lines 220-244)
RECURSIVE GreedyLoop(_, _, _)
GreedyLoop(vehicles, unrouted, vehicle_id) ==
    IF unrouted = {} \/ ~(vehicle_id < instance.num_vehicles) THEN {vehicles}
    ELSE UNION {GreedyLoop(Append(vehicles, calculate_metrics(f[1])), f[2], vehicle_id + 1) :
                  f \in GreedyFill(Vehicle, unrouted)}

\* every list of vehicles _random_greedy_construction can return
random_greedy_construction == GreedyLoop(<<>>, CustomerIds, 0)

\* the scan of one vehicle's positions (lines 341-351); best is
\* [vehicle, position, cost, found]
RECURSIVE BestPositionFrom(_, _, _, _, _)
BestPositionFrom(vehicles, vi, customer, pos, best) ==
    IF pos > Len(vehicles[vi].route) THEN best
    ELSE LET test_route == InsertAt(vehicles[vi].route, pos, customer)
             cost == calculate_insertion_cost(vehicles[vi].route, customer, pos)
             take == /\ is_route_feasible(test_route, instance.vehicle_capacity)
                     /\ (~best.found \/ cost < best.cost)
         IN  BestPositionFrom(vehicles, vi, customer, pos + 1,
                 IF take THEN [vehicle |-> vi, position |-> pos, cost |-> cost, found |-> TRUE]
                 ELSE best)

\* the scan over the vehicles (lines 337-351)
RECURSIVE BestVehicleFrom(_, _, _, _)
BestVehicleFrom(vehicles, vi, customer, best) ==
    IF vi > Len(vehicles) THEN best
    ELSE BestVehicleFrom(vehicles, vi + 1, customer,
            IF vehicles[vi].load + Cust(customer).demand > instance.vehicle_capacity
            THEN best
            ELSE BestPositionFrom(vehicles, vi, customer, 0, best))

\* an insertion that opens no route beyond the fleet
insert_customer_capped(vehicles, customer) ==
    LET best == BestVehicleFrom(vehicles, 1, customer,
                    [vehicle |-> 0, position |-> -1, cost |-> 0, found |-> FALSE])
    IN  IF best.found
        THEN [vehicles EXCEPT ![best.vehicle] =
                [vehicles[best.vehicle] EXCEPT
                   !.route = InsertAt(vehicles[best.vehicle].route, best.position, customer),
                   !.load = vehicles[best.vehicle].load + Cust(customer).demand]]
        ELSE IF Len(vehicles) >= instance.num_vehicles THEN vehicles
        ELSE Append(vehicles, [Vehicle EXCEPT !.route = <<customer>>,
                                              !.load = Cust(customer).demand])

\* one pass of the loop of _insert_remaining_customers (lines 331-362)
insert_customer(vehicles, customer) ==
    LET best == BestVehicleFrom(vehicles, 1, customer,
                    [vehicle |-> 0, position |-> -1, cost |-> 0, found |-> FALSE])
    IN  IF best.found
        THEN [vehicles EXCEPT ![best.vehicle] =
                [vehicles[best.vehicle] EXCEPT
                   !.route = InsertAt(vehicles[best.vehicle].route, best.position, customer),
                   !.load = vehicles[best.vehicle].load + Cust(customer).demand]]
        ELSE Append(vehicles, [Vehicle EXCEPT !.route = <<customer>>,
                                              !.load = Cust(customer).demand])

\* the passes of the loop of _insert_remaining_customers (line 331), each as
\* [vehicles, customer, after]
RECURSIVE InsertSteps(_, _)
InsertSteps(vehicles, remaining_customers) ==
    IF remaining_customers = <<>> THEN <<>>
    ELSE LET after == insert_customer(vehicles, Head(remaining_customers))
         IN  <<[vehicles |-> vehicles, customer |-> Head(remaining_customers),
                after |-> after]>>
             \o InsertSteps(after, Tail(remaining_customers))

RECURSIVE insert_remaining_customers(_, _)
insert_remaining_customers(vehicles, remaining_customers) ==
    IF remaining_customers = <<>> THEN vehicles
    ELSE insert_remaining_customers(insert_customer(vehicles, Head(remaining_customers)),
                                    Tail(remaining_customers))

\* indices of the vehicles with a non-empty route, in order
RECURSIVE NonEmptyFrom(_, _)
NonEmptyFrom(vehicles, i) ==
    IF i > Len(vehicles) THEN <<>>
    ELSE (IF vehicles[i].route # <<>> THEN <<i>> ELSE <<>>) \o NonEmptyFrom(vehicles, i + 1)

vehicles_with_routes(s) == NonEmptyFrom(s.vehicles, 1)

\* np.random.choice(a, k, replace = False): sequences of k distinct
\* positions of a list of n elements
Arrangements(n, k) ==
    {b \in [1..k -> 1..n] : \A i, j \in 1..k : i # j => b[i] # b[j]}

\* a crossover that reinserts nothing
RemainingOf_none(all_customers, used) == <<>>

\* instance.customers not yet used, in the order of the instance's list
\* (lines 312-315)
RECURSIVE RemainingOf(_, _)
RemainingOf(all_customers, used) ==
    IF all_customers = <<>> THEN <<>>
    ELSE (IF Head(all_customers) \in used THEN <<>> ELSE <<Head(all_customers)>>)
         \o RemainingOf(Tail(all_customers), used)

\* one offspring of best_route_crossover: the selected routes of the parent
\* (route and load copied, lines 291-296), the remaining customers inserted
\* (314-317), metrics recomputed (321-322), Solution built (326)
crossover_child(parent, selected) ==
    LET routes_p == vehicles_with_routes(parent)
        copied == MapSeq(LAMBDA k : [Vehicle EXCEPT
                                       !.route = parent.vehicles[routes_p[k]].route,
                                       !.load = parent.vehicles[routes_p[k]].load],
                         selected)
        used == UNION {Range(copied[k].route) : k \in 1..Len(copied)}
        filled == insert_remaining_customers(copied, RemainingOf(InstanceIds, used))
    IN  Solution(MapSeq(calculate_metrics, filled))

\* the passes of _insert_remaining_customers when best_route_crossover
\* builds the offspring of parent from its selected routes (lines 291-317)
CrossoverInsertSteps(parent, selected) ==
    LET routes_p == vehicles_with_routes(parent)
        copied == MapSeq(LAMBDA k : [Vehicle EXCEPT
                                       !.route = parent.vehicles[routes_p[k]].route,
                                       !.load = parent.vehicles[routes_p[k]].load],
                         selected)
        used == UNION {Range(copied[k].route) : k \in 1..Len(copied)}
    IN  InsertSteps(copied, RemainingOf(InstanceIds, used))

num_routes_to_copy(parent1) == Max(1, Len(parent1.vehicles) \div 3)

\* the draws of best_route_crossover: <<selected_routes1, selected_routes2>>
CrossoverDraws(parent1, parent2) ==
    LET n1 == Len(vehicles_with_routes(parent1))
        n2 == Len(vehicles_with_routes(parent2))
    IN  Arrangements(n1, Min(num_routes_to_copy(parent1), n1))
        \X Arrangements(n2, Min(num_routes_to_copy(parent1), n2))

best_route_crossover(parent1, parent2, draw) ==
    <<crossover_child(parent1, draw[1]), crossover_child(parent2, draw[2])>>

---------------------------------------------------------------------------
(* Mutations.  Vehicles are numbered from 1, positions in a route from 0.  *)

NoDraw == [kind |-> "none"]

\* best_pos of relocate_mutation (lines 431-439): the scan keeps best_pos = 0
\* when the capacity test fails at every position
RECURSIVE RelocateBestPos(_, _, _, _, _)
RelocateBestPos(v_to, customer, pos, best_pos, best) ==
    IF pos > Len(v_to.route) THEN best_pos
    ELSE LET fits == v_to.load + Cust(customer).demand <= instance.vehicle_capacity
             cost == calculate_insertion_cost(v_to.route, customer, pos)
             take == fits /\ (~best.found \/ cost < best.cost)
         IN  RelocateBestPos(v_to, customer, pos + 1,
                             IF take THEN pos ELSE best_pos,
                             IF take THEN [cost |-> cost, found |-> TRUE] ELSE best)

\* a reinsertion that happens only when the customer fits
relocate_insert_if_fits(v_to, customer, best_pos) ==
    IF v_to.load + Cust(customer).demand <= instance.vehicle_capacity
    THEN [v_to EXCEPT !.route = InsertAt(v_to.route, best_pos, customer),
                      !.load = v_to.load + Cust(customer).demand]
    ELSE v_to

\* v_to.route.insert(best_pos, customer); v_to.load += customer.demand
\* (lines 441-442): not guarded by the capacity test
relocate_insert(v_to, customer, best_pos) ==
    [v_to EXCEPT !.route = InsertAt(v_to.route, best_pos, customer),
                 !.load = v_to.load + Cust(customer).demand]

\* draws of relocate_mutation: v_from among the vehicles with a route, v_to
\* any other vehicle, remove_idx a position of v_from's route
RelocateDraws(s) ==
    IF Len(vehicles_with_routes(s)) < 2 THEN {NoDraw}
    ELSE {d \in [kind : {"relocate"}, v_from : Range(vehicles_with_routes(s)),
                 v_to : 1..Len(s.vehicles),
                 remove_idx : 0..(Cardinality(CustomerIds) - 1)] :
            d.v_to # d.v_from /\ d.remove_idx < Len(s.vehicles[d.v_from].route)}

relocate_mutation(s, draw) ==
    LET mutated == copy(s)
    IN  IF Len(vehicles_with_routes(mutated)) < 2 THEN mutated
        ELSE LET v_from == mutated.vehicles[draw.v_from]
                 v_to == mutated.vehicles[draw.v_to]
                 customer == v_from.route[draw.remove_idx + 1]
                 from1 == [v_from EXCEPT !.route = RemoveAt(v_from.route, draw.remove_idx),
                                         !.load = v_from.load - Cust(customer).demand]
                 best_pos == RelocateBestPos(v_to, customer, 0, 0,
                                             [cost |-> 0, found |-> FALSE])
                 to1 == relocate_insert(v_to, customer, best_pos)
             IN  calculate_fitness([mutated.vehicles EXCEPT
                                      ![draw.v_from] = calculate_metrics(from1),
                                      ![draw.v_to] = calculate_metrics(to1)])

\* draws of exchange_mutation: two distinct vehicles with a route, one
\* position in each
ExchangeDraws(s) ==
    IF Len(vehicles_with_routes(s)) < 2 THEN {NoDraw}
    ELSE {d \in [kind : {"exchange"}, v1 : Range(vehicles_with_routes(s)),
                 v2 : Range(vehicles_with_routes(s)),
                 idx1 : 0..(Cardinality(CustomerIds) - 1),
                 idx2 : 0..(Cardinality(CustomerIds) - 1)] :
            /\ d.v1 # d.v2
            /\ d.idx1 < Len(s.vehicles[d.v1].route)
            /\ d.idx2 < Len(s.vehicles[d.v2].route)}

\* a capacity test that looks at the first vehicle only
exchange_fits_first(v1, v2, c1, c2) ==
    v1.load - Cust(c1).demand + Cust(c2).demand <= instance.vehicle_capacity

\* the capacity test of exchange_mutation (lines 473-474)
exchange_fits(v1, v2, c1, c2) ==
    /\ v1.load - Cust(c1).demand + Cust(c2).demand <= instance.vehicle_capacity
    /\ v2.load - Cust(c2).demand + Cust(c1).demand <= instance.vehicle_capacity

exchange_mutation(s, draw) ==
    LET mutated == copy(s)
    IN  IF Len(vehicles_with_routes(mutated)) < 2 THEN mutated
        ELSE LET v1 == mutated.vehicles[draw.v1]
                 v2 == mutated.vehicles[draw.v2]
                 c1 == v1.route[draw.idx1 + 1]
                 c2 == v2.route[draw.idx2 + 1]
                 new1 == [v1 EXCEPT !.route = [v1.route EXCEPT ![draw.idx1 + 1] = c2],
                                    !.load = v1.load - Cust(c1).demand + Cust(c2).demand]
                 new2 == [v2 EXCEPT !.route = [v2.route EXCEPT ![draw.idx2 + 1] = c1],
                                    !.load = v2.load - Cust(c2).demand + Cust(c1).demand]
             IN  IF exchange_fits(v1, v2, c1, c2)
                 THEN calculate_fitness([mutated.vehicles EXCEPT
                                           ![draw.v1] = calculate_metrics(new1),
                                           ![draw.v2] = calculate_metrics(new2)])
                 ELSE mutated

max_iterations == 50

\* route[:i+1] + route[i+1:j+1][::-1] + route[j+1:]
two_opt_reversal(route, i, j) ==
    SubSeq(route, 1, i + 1) \o Reverse(SubSeq(route, i + 2, j + 1))
    \o SubSeq(route, j + 2, Len(route))

\* a reversal the scan accepts (lines 511-515)
two_opt_accepts(route, i, j) ==
    /\ is_route_feasible(two_opt_reversal(route, i, j), instance.vehicle_capacity)
    /\ calculate_route_distance(two_opt_reversal(route, i, j))
         < calculate_route_distance(route)

\* the pairs (i, j) of the scan: i in range(n - 1), j in range(i + 2, n)
TwoOptPairs(n) == {p \in (0..(n - 2)) \X (0..(n - 1)) : p[2] >= p[1] + 2}

\* the while loop (lines 503-521): each pass takes the first accepted pair
RECURSIVE TwoOptLoop(_, _)
TwoOptLoop(route, iteration) ==
    LET good == {p \in TwoOptPairs(Len(route)) : two_opt_accepts(route, p[1], p[2])}
        first == CHOOSE p \in good :
                    \A q \in good : p[1] < q[1] \/ (p[1] = q[1] /\ p[2] <= q[2])
    IN  IF ~(iteration < max_iterations) \/ good = {} THEN route
        ELSE TwoOptLoop(two_opt_reversal(route, first[1], first[2]), iteration + 1)

two_opt_vehicle(v) ==
    IF Len(v.route) < 4 THEN v
    ELSE calculate_metrics([v EXCEPT !.route = TwoOptLoop(v.route, 0)])

two_opt_intra_route(s) ==
    LET improved == copy(s)
    IN  calculate_fitness(MapSeq(two_opt_vehicle, improved.vehicles))

\* _apply_random_mutation: the draws are the mutation type and its own draws
MutationDraws(s) ==
    RelocateDraws(s) \cup ExchangeDraws(s) \cup {[kind |-> "intra_2opt"]}

apply_random_mutation(s, draw) ==
    IF draw.kind = "intra_2opt" THEN two_opt_intra_route(s)
    ELSE IF draw.kind = "exchange" THEN exchange_mutation(s, draw)
    ELSE IF draw.kind = "relocate" THEN relocate_mutation(s, draw)
    ELSE copy(s)

---------------------------------------------------------------------------
(* Instances.  Depot at the origin; all pairwise distances are integers.   *)

Depot(due_time) == Customer(0, 0, 0, 0, 0, due_time, 0)

VRPTWInstance(customers, depot, num_vehicles, vehicle_capacity) ==
    [customers |-> customers, depot |-> depot, num_vehicles |-> num_vehicles,
     vehicle_capacity |-> vehicle_capacity]

\* three customers on the corners of a 3 x 4 rectangle.  Customer 1 opens
\* at 5 (a vehicle coming straight from the depot waits) and closes at 8
\* (a vehicle coming from customer 2 is late); customer 3 fills a vehicle.
\* Route <<1, 2>> meets both windows and is back at the depot at 16.
RectCustomers ==
    <<Customer(1, 3, 0, 1, 5, 8, 1),
      Customer(2, 3, 4, 1, 0, 30, 1),
      Customer(3, 0, 4, 3, 0, 30, 1)>>

\* capacity 3, depot closes at 15, three vehicles: one per customer
InstRect == VRPTWInstance(RectCustomers, Depot(15), 3, 3)

\* the same with two vehicles: Solomon's checks leave a customer unrouted
InstShort == VRPTWInstance(RectCustomers, Depot(15), 2, 3)

\* four customers on a line, wide windows, one route holds them all
LineCustomers ==
    <<Customer(1, 1, 0, 1, 0, 100, 0),
      Customer(2, 2, 0, 1, 0, 100, 0),
      Customer(3, 3, 0, 1, 0, 100, 0),
      Customer(4, 4, 0, 1, 0, 100, 0)>>

InstLine == VRPTWInstance(LineCustomers, Depot(100), 2, 4)

\* two customers: the far one (2) seeds Solomon's route, and the near one
\* (1) cannot join it, since <<1, 2>> is back at the depot at 16 and
\* <<2, 1>> reaches customer 1 late
PairCustomers ==
    <<Customer(1, 3, 0, 1, 5, 8, 1),
      Customer(2, 3, 4, 1, 0, 30, 1)>>

InstPair == VRPTWInstance(PairCustomers, Depot(15), 2, 2)

\* one vehicle that holds one customer
InstTight == VRPTWInstance(PairCustomers, Depot(15), 1, 1)

\* a single customer
InstOne == VRPTWInstance(<<Customer(1, 3, 4, 1, 0, 30, 1)>>, Depot(15), 1, 1)

\* a loop out and back: customers 1, 2 and 4 stand at the same place, and
\* customer 4 opens at 8.  Route <<1, 2, 3, 4>> has length 14, never waits
\* and is back at the depot at 14; the shorter <<1, 2, 4, 3>> (length 12)
\* waits for customer 4 and is back at 17.
LoopCustomers ==
    <<Customer(1, 3, 0, 1, 0, 40, 0),
      Customer(2, 3, 0, 1, 0, 40, 0),
      Customer(3, 3, 4, 1, 0, 40, 0),
      Customer(4, 3, 0, 1, 8, 48, 0)>>

InstLoop == VRPTWInstance(LoopCustomers, Depot(14), 1, 4)

\* a single customer that asks for more than a vehicle holds
InstHeavy == VRPTWInstance(<<Customer(1, 3, 4, 2, 0, 30, 1)>>, Depot(15), 1, 1)

\* a single customer whose window opens and closes at 5: __init__ takes it
InstPoint == VRPTWInstance(<<Customer(1, 3, 4, 1, 5, 5, 1)>>, Depot(15), 1, 1)

\* six vehicles of capacity 1: the greedy construction fills one and
\* leaves five empty, since customer 2 fits none
WideCustomers ==
    <<Customer(1, 3, 0, 1, 0, 30, 1),
      Customer(2, 0, 4, 2, 0, 30, 1)>>

InstWide == VRPTWInstance(WideCustomers, Depot(15), 6, 1)

\* two customers at the same distance from the depot, the list holding
\* customer 2 before customer 1; each fills a vehicle
InstSwap ==
    VRPTWInstance(<<Customer(2, 3, 4, 1, 0, 30, 1), Customer(1, -3, 4, 1, 0, 30, 1)>>,
                  Depot(30), 2, 1)

\* customers 1 and 2 on one side of the depot, customer 3 far on the other;
\* the depot closes at 16, the time of the round trip to customer 3, so that
\* Solomon gives customer 3 a route of its own
FarCustomers ==
    <<Customer(1, 3, 0, 1, 0, 100, 0),
      Customer(2, 6, 0, 1, 0, 100, 0),
      Customer(3, -8, 0, 1, 0, 100, 0)>>

InstFar == VRPTWInstance(FarCustomers, Depot(16), 2, 3)

\* the farthest customer (1) closes at 3 and is reached at 5 at the earliest:
\* it seeds Solomon's first route and stays alone, the other two share a route
InstLate ==
    VRPTWInstance(<<Customer(1, 5, 0, 1, 0, 3, 0), Customer(2, 3, 0, 1, 0, 100, 0),
                    Customer(3, 4, 0, 1, 0, 100, 0)>>, Depot(20), 2, 2)

\* np.random.uniform(0.5, 2.0) and np.random.uniform(0.5, 3.0), whole values
AlphaMuValues == {1, 2}

LambdaValues == {1, 2, 3}

---------------------------------------------------------------------------
(* ImprovedGeneticAlgorithm: the population level.  Rates are in percent.  *)
(* A draw of np.random.random() is below a rate strictly between 0 and 100 *)
(* or not, as the stream decides.  np.random.choice(p=probs) can return    *)
(* any element whose probability is positive.                              *)

Config(pop_size, elite_size, generations, crossover_rate, mutation_rate, local_search_rate) ==
    [pop_size |-> pop_size, elite_size |-> elite_size, generations |-> generations,
     crossover_rate |-> crossover_rate, mutation_rate |-> mutation_rate,
     local_search_rate |-> local_search_rate]

max_stagnation == 50

tournament_size == 5

\* the outcomes of np.random.random() < rate
Below(rate) == {b \in BOOLEAN : (b => rate > 0) /\ (~b => rate < 100)}

\* min(solutions, key=lambda s: s.fitness): the first of the minimal ones
MinByFitness(solutions) ==
    solutions[CHOOSE i \in 1..Len(solutions) :
                /\ \A j \in 1..Len(solutions) : solutions[i].fitness <= solutions[j].fitness
                /\ \A j \in 1..(i - 1) : solutions[j].fitness > solutions[i].fitness]

\* list.sort(key=lambda s: s.fitness): stable
RECURSIVE InsertByFitness(_, _)
InsertByFitness(sorted, s) ==
    IF sorted = <<>> THEN <<s>>
    ELSE IF Head(sorted).fitness <= s.fitness
         THEN <<Head(sorted)>> \o InsertByFitness(Tail(sorted), s)
         ELSE <<s>> \o sorted

RECURSIVE SortByFitness(_)
SortByFitness(solutions) ==
    IF solutions = <<>> THEN <<>>
    ELSE InsertByFitness(SortByFitness(SubSeq(solutions, 1, Len(solutions) - 1)),
                         solutions[Len(solutions)])

\* every list of n elements of S
Lists(n, S) == [1..n -> S]

SolomonSolutions ==
    {Solution(construct_solution(a, m, l)) :
        a \in AlphaMuValues, m \in AlphaMuValues, l \in LambdaValues}

GreedySolutions == {Solution(v) : v \in random_greedy_construction}

\* one _apply_random_mutation on every solution of S, every draw
MutationStep(S) ==
    UNION {{apply_random_mutation(s, d) : d \in MutationDraws(s)} : s \in S}

RECURSIVE MutateTimes(_, _)
MutateTimes(S, n) == IF n = 0 THEN S ELSE MutateTimes(MutationStep(S), n - 1)

\* copy, then np.random.randint(2, 5) mutations (lines 196-200, 669-672)
HeavyMutations(s) == UNION {MutateTimes({copy(s)}, n) : n \in 2..4}

\* a counter that an improvement does not reset
update_best_solution_unreset(pop, best, counter) ==
    LET best_in_pop == MinByFitness(pop)
    IN  IF best = <<>> \/ best_in_pop.fitness < best[1].fitness
        THEN [best_solution |-> <<copy(best_in_pop)>>, stagnation_counter |-> counter + 1]
        ELSE [best_solution |-> best, stagnation_counter |-> counter + 1]

\* a best-so-far kept by a maximising search
update_best_solution_maximising(pop, best, counter) ==
    LET worst_in_pop == CHOOSE s \in Range(pop) : \A t \in Range(pop) : t.fitness <= s.fitness
    IN  IF best = <<>> \/ worst_in_pop.fitness > best[1].fitness
        THEN [best_solution |-> <<copy(worst_in_pop)>>, stagnation_counter |-> 0]
        ELSE [best_solution |-> best, stagnation_counter |-> counter + 1]

\* _update_best_solution: the new best_solution and stagnation_counter
update_best_solution(pop, best, counter) ==
    LET best_in_pop == MinByFitness(pop)
    IN  IF best = <<>> \/ best_in_pop.fitness < best[1].fitness
        THEN [best_solution |-> <<copy(best_in_pop)>>, stagnation_counter |-> 0]
        ELSE [best_solution |-> best, stagnation_counter |-> counter + 1]

\* the populations initialize_population can build
InitialPopulations(pop_size) ==
    LET n_solomon == (pop_size * 4) \div 10
        n_random == (pop_size * 4) \div 10
        n_mutated == pop_size - (n_solomon + n_random)
    IN  IF n_solomon + n_random = 0 THEN {<<>>}
        ELSE UNION {LET solutions == a \o b
                        best == MinByFitness(solutions)
                    IN  {solutions \o c : c \in Lists(n_mutated, HeavyMutations(best))}
                    : a \in Lists(n_solomon, SolomonSolutions),
                      b \in Lists(n_random, GreedySolutions)}

\* tournament_selection: tournament_size members drawn without replacement,
\* in any order; min returns the first of its minimal ones
TournamentWinners(pop) ==
    {pop[i] : i \in {w \in 1..Len(pop) :
                       \E T \in SUBSET (1..Len(pop)) :
                           /\ Cardinality(T) = tournament_size
                           /\ w \in T
                           /\ \A j \in T : pop[w].fitness <= pop[j].fitness}}

\* a tournament winner together with what winner.copy() returns
Selected(pop) == {[parent |-> w, clone |-> copy(w)] : w \in TournamentWinners(pop)}

\* the crossover loop of evolve (lines 559-566) from parents[i] on; cross is
\* the set of i whose draw fell below crossover_rate
RECURSIVE CrossoverFrom(_, _, _)
CrossoverFrom(parents, i, cross) ==
    IF i > Len(parents) THEN {<<>>}
    ELSE LET pairs ==
                 IF i + 1 <= Len(parents) /\ i \in cross
                 THEN {best_route_crossover(parents[i].parent, parents[i + 1].parent, d) :
                         d \in CrossoverDraws(parents[i].parent, parents[i + 1].parent)}
                 ELSE {<<parents[i].clone,
                         IF i + 1 <= Len(parents) THEN parents[i + 1].clone
                         ELSE parents[i].clone>>}
         IN  {h \o t : h \in pairs, t \in CrossoverFrom(parents, i + 2, cross)}

\* the mutation loop (lines 569-571); mut is the set of i drawn below
\* mutation_rate
RECURSIVE MutationFrom(_, _, _)
MutationFrom(offspring, i, mut) ==
    IF i > Len(offspring) THEN {<<>>}
    ELSE LET heads == IF i \in mut
                      THEN {apply_random_mutation(offspring[i], d) :
                              d \in MutationDraws(offspring[i])}
                      ELSE {offspring[i]}
         IN  {<<h>> \o t : h \in heads, t \in MutationFrom(offspring, i + 1, mut)}

\* the local search loop (lines 574-576)
RECURSIVE LocalSearchFrom(_, _, _)
LocalSearchFrom(offspring, i, ls) ==
    IF i > Len(offspring) THEN <<>>
    ELSE <<IF i \in ls THEN two_opt_intra_route(offspring[i]) ELSE offspring[i]>>
         \o LocalSearchFrom(offspring, i + 1, ls)

\* the diversity loop (lines 587-604): every weight is positive, so any
\* member of remaining can be drawn
RECURSIVE FillFrom(_, _, _)
FillFrom(new_population, remaining, pop_size) ==
    IF Len(new_population) >= pop_size \/ remaining = <<>> THEN {new_population}
    ELSE UNION {FillFrom(Append(new_population, remaining[k]),
                         RemoveAt(remaining, k - 1), pop_size)
                : k \in 1..Len(remaining)}

\* a survivor selection without an elite: every place is drawn
Survivors_drawn(pop, offspring, elite_size, pop_size) ==
    LET combined == SortByFitness(pop \o offspring)
    IN  {SubSeq(n, 1, Min(pop_size, Len(n))) : n \in FillFrom(<<>>, combined, pop_size)}

\* survivor selection (lines 579-606)
Survivors(pop, offspring, elite_size, pop_size) ==
    LET combined == SortByFitness(pop \o offspring)
        elite == SubSeq(combined, 1, Min(elite_size, Len(combined)))
        remaining == SubSeq(combined, Len(elite) + 1, Len(combined))
    IN  {SubSeq(n, 1, Min(pop_size, Len(n))) : n \in FillFrom(elite, remaining, pop_size)}

\* of the draws of one evolve() that can fall either side of their rate, at
\* most MaxApplied fall below it
MaxApplied == 1

\* the sets of draws of one loop that fall below rate, and how many of them
\* could have fallen above
Applied(S, rate) ==
    {T \in SUBSET S : /\ \A i \in S : (i \in T) \in Below(rate)
                      /\ (FALSE \in Below(rate)) => Cardinality(T) <= MaxApplied}

Free(T, rate) == IF FALSE \in Below(rate) THEN Cardinality(T) ELSE 0

\* the draws of one evolve(): which pairs cross, which offspring mutate and
\* which are searched
EvolvePlans(cfg) ==
    LET starts == {i \in 1..cfg.pop_size : i % 2 = 1 /\ i + 1 <= cfg.pop_size}
        kids == 1..(2 * ((cfg.pop_size + 1) \div 2))
    IN  {pl \in [cross : Applied(starts, cfg.crossover_rate),
                 mut : Applied(kids, cfg.mutation_rate),
                 ls : Applied(kids, cfg.local_search_rate)] :
           Free(pl.cross, cfg.crossover_rate) + Free(pl.mut, cfg.mutation_rate)
               + Free(pl.ls, cfg.local_search_rate) <= MaxApplied}

\* the offspring lists one evolve() can build (lines 556-576)
Offspring(pop, cfg) ==
    UNION {UNION {{LocalSearchFrom(o2, 1, pl.ls) : o2 \in MutationFrom(o1, 1, pl.mut)}
                  : o1 \in CrossoverFrom(parents, 1, pl.cross)}
           : parents \in Lists(cfg.pop_size, Selected(pop)),
             pl \in EvolvePlans(cfg)}

\* the populations one evolve() can leave
NextPopulations(pop, cfg) ==
    UNION {Survivors(pop, offspring, cfg.elite_size, cfg.pop_size)
           : offspring \in Offspring(pop, cfg)}

\* the fitness of the first member in place of the mean
MeanFitness_first(pop) == <<pop[1].fitness, 1>>

\* np.mean of the fitnesses, kept as <<sum, count>>
MeanFitness(pop) == <<SumSeq(MapSeq(LAMBDA s : s.fitness, pop)), Len(pop)>>

\* the populations _reinitialize_population can leave (lines 661-676)
ReinitializedPopulations(pop, pop_size) ==
    LET sorted == SortByFitness(pop)
        keep == pop_size \div 2
        fresh == UNION {HeavyMutations(sorted[b]) : b \in 1..Min(keep, Len(sorted))}
                 \cup GreedySolutions
    IN  {sorted \o n : n \in Lists(pop_size - keep, fresh)}

---------------------------------------------------------------------------
(* run()                                                                   *)

Generations == 2

LongRun == max_stagnation + 2

RunCases ==
    {[instance |-> InstPair, config |-> Config(5, 5, Generations, 80, 30, 0)],
     [instance |-> InstTight, config |-> Config(5, 4, Generations, 80, 30, 50)],
     [instance |-> InstOne, config |-> Config(5, 2, LongRun, 80, 30, 50)],
     [instance |-> InstOne, config |-> Config(5, 2, 0, 80, 30, 50)],
     [instance |-> InstHeavy, config |-> Config(5, 2, Generations, 80, 30, 50)],
     [instance |-> InstPair, config |-> Config(5, 5, max_stagnation, 0, 0, 0)]}

\* an operator that wrote to the vehicles of the solution passed to it
argument_after_shared(solution, result) ==
    [solution EXCEPT !.vehicles = result.vehicles]

\* The solution object passed to an operator, as the call leaves it.
\* relocate_mutation, exchange_mutation and two_opt_intra_route write only to
\* solution.copy() (lines 411, 454, 491), whose vehicles are new objects with
\* new route lists (lines 79-90); best_route_crossover writes only to the
\* vehicles it creates from v_orig.route.copy() (lines 291-296, 304-309).
argument_after(solution, result) == solution

\* the record of an operator call on the bench
Call(op, input, input2, draw, out2) ==
    [op |-> op, input |-> input, input2 |-> input2, draw |-> draw, out2 |-> out2]

\* after __init__ (lines 138-157)
Init ==
    /\ \E c \in RunCases : instance = c.instance /\ config = c.config
    /\ population = <<>>
    /\ best_solution = <<>>
    /\ best_fitness_history = <<>>
    /\ avg_fitness_history = <<>>
    /\ generation = 0
    /\ stagnation_counter = 0
    /\ gen = 0
    /\ pc = "run"
    /\ sol = <<>>
    /\ mate = <<>>
    /\ last = Call("none", <<>>, <<>>, NoDraw, <<>>)

\* run() calls initialize_population (line 628)
InitializePopulation ==
    /\ pc = "run"
    /\ \E pop \in InitialPopulations(config.pop_size) :
         LET u == update_best_solution(pop, best_solution, stagnation_counter)
         IN  /\ population' = pop
             /\ best_solution' = u.best_solution
             /\ stagnation_counter' = u.stagnation_counter
    /\ pc' = "loop"
    /\ UNCHANGED <<instance, config, best_fitness_history, avg_fitness_history,
                   generation, gen, benchVars>>

\* one iteration of the loop of run(): self.generation = gen, evolve() with
\* its statistics (lines 609-613), then the stagnation test (line 644)
Evolve ==
    /\ pc = "loop"
    /\ gen < config.generations
    /\ generation' = gen
    /\ gen' = gen + 1
    /\ \E pop \in NextPopulations(population, config) :
         LET u == update_best_solution(pop, best_solution, stagnation_counter)
         IN  /\ population' = pop
             /\ best_solution' = u.best_solution
             /\ stagnation_counter' = u.stagnation_counter
             /\ best_fitness_history' =
                    Append(best_fitness_history, u.best_solution[1].fitness)
             /\ avg_fitness_history' = Append(avg_fitness_history, MeanFitness(pop))
             /\ pc' = IF u.stagnation_counter >= max_stagnation THEN "restart" ELSE "loop"
    /\ UNCHANGED <<instance, config, benchVars>>

\* the restart of run() (lines 644-647)
Reinitialize ==
    /\ pc = "restart"
    /\ population' \in ReinitializedPopulations(population, config.pop_size)
    /\ stagnation_counter' = 0
    /\ pc' = "loop"
    /\ UNCHANGED <<instance, config, best_solution, best_fitness_history,
                   avg_fitness_history, generation, gen, benchVars>>

\* the loop is over: run() returns self.best_solution
Return ==
    /\ pc = "loop"
    /\ gen >= config.generations
    /\ pc' = "done"
    /\ UNCHANGED <<instance, config, population, best_solution, best_fitness_history,
                   avg_fitness_history, generation, stagnation_counter, gen, benchVars>>

Next ==
    \/ InitializePopulation
    \/ Evolve
    \/ Reinitialize
    \/ Return

Spec == Init /\ [][Next]_vars

\* run() moves on: its position is <<pc, gen>>, and every step of Next
\* changes it
Advance ==
    /\ pc # "done"
    /\ pc' \in {"loop", "restart", "done"}
    /\ gen' \in {gen, gen + 1}

\* run() is one sequential loop whose every statement returns: as long as it
\* has not returned, it moves on
FairSpec == Spec /\ WF_<<pc, gen>>(Advance)

---------------------------------------------------------------------------
(* Operator bench: the constructors and the variation operators applied    *)
(* in any sequence, starting from constructed solutions: sol is built by   *)
(* a constructor, mate (the other crossover parent) is a constructed       *)
(* solution too, then the operators act on sol.  last records the call:    *)
(* its operator, input(s), draws and second result.                        *)

BenchInstances ==
    {InstRect, InstShort, InstLine, InstLoop, InstHeavy, InstPoint, InstWide, InstSwap,
     InstFar, InstTight, InstLate}

\* every solution initialize_population builds from a constructor
ConstructedSolutions == SolomonSolutions \cup GreedySolutions

InitBench ==
    /\ instance \in BenchInstances
    /\ pc = "bench"
    /\ config = <<>>
    /\ population = <<>>
    /\ best_solution = <<>>
    /\ best_fitness_history = <<>>
    /\ avg_fitness_history = <<>>
    /\ generation = 0
    /\ stagnation_counter = 0
    /\ gen = 0
    /\ sol = <<>>
    /\ mate = <<>>
    /\ last = Call("none", <<>>, <<>>, NoDraw, <<>>)

BenchSolomon ==
    /\ pc = "bench"
    /\ sol = <<>>
    /\ \E a \in AlphaMuValues, m \in AlphaMuValues, l \in LambdaValues :
         /\ sol' = <<Solution(construct_solution(a, m, l))>>
         /\ last' = Call("construct_solution", <<>>, <<>>,
                      [kind |-> "solomon", alpha |-> a, mu |-> m, lambda_param |-> l], <<>>)
    /\ UNCHANGED <<instance, pc, runVars, mate>>

BenchGreedy ==
    /\ pc = "bench"
    /\ sol = <<>>
    /\ \E v \in random_greedy_construction :
         /\ sol' = <<Solution(v)>>
         /\ last' = Call("random_greedy_construction", <<>>, <<>>, NoDraw, <<>>)
    /\ UNCHANGED <<instance, pc, runVars, mate>>

\* a constructed solution is kept as the second parent
BenchMate ==
    /\ pc = "bench"
    /\ sol # <<>> /\ mate = <<>>
    /\ \E m \in ConstructedSolutions :
         /\ mate' = <<m>>
         /\ last' = Call("mate", <<>>, <<>>, NoDraw, <<>>)
    /\ UNCHANGED <<instance, pc, runVars, sol>>

\* best_route_crossover(sol, mate) or (mate, sol); the child of sol goes on
BenchCrossover ==
    /\ pc = "bench"
    /\ sol # <<>> /\ mate # <<>>
    /\ \/ \E d \in CrossoverDraws(sol[1], mate[1]) :
            \E c \in {best_route_crossover(sol[1], mate[1], d)} :
                /\ sol' = <<c[1]>>
                /\ mate' = <<argument_after(mate[1], c[2])>>
                /\ last' = Call("best_route_crossover",
                             <<argument_after(sol[1], c[1])>>,
                             <<argument_after(mate[1], c[2])>>,
                             [kind |-> "crossover", selected |-> d], <<c[2]>>)
       \/ \E d \in CrossoverDraws(mate[1], sol[1]) :
            \E c \in {best_route_crossover(mate[1], sol[1], d)} :
                /\ sol' = <<c[2]>>
                /\ mate' = <<argument_after(mate[1], c[1])>>
                /\ last' = Call("best_route_crossover",
                             <<argument_after(mate[1], c[1])>>,
                             <<argument_after(sol[1], c[2])>>,
                             [kind |-> "crossover", selected |-> d], <<c[1]>>)
    /\ UNCHANGED <<instance, pc, runVars>>

BenchRelocate ==
    /\ pc = "bench"
    /\ sol # <<>> /\ mate # <<>>
    /\ \E d \in RelocateDraws(sol[1]) :
         \E mutated \in {relocate_mutation(sol[1], d)} :
             /\ sol' = <<mutated>>
             /\ last' = Call("relocate_mutation", <<argument_after(sol[1], mutated)>>,
                          <<>>, d, <<>>)
    /\ UNCHANGED <<instance, pc, runVars, mate>>

BenchExchange ==
    /\ pc = "bench"
    /\ sol # <<>> /\ mate # <<>>
    /\ \E d \in ExchangeDraws(sol[1]) :
         \E mutated \in {exchange_mutation(sol[1], d)} :
             /\ sol' = <<mutated>>
             /\ last' = Call("exchange_mutation", <<argument_after(sol[1], mutated)>>,
                          <<>>, d, <<>>)
    /\ UNCHANGED <<instance, pc, runVars, mate>>

BenchTwoOpt ==
    /\ pc = "bench"
    /\ sol # <<>> /\ mate # <<>>
    /\ \E improved \in {two_opt_intra_route(sol[1])} :
         /\ sol' = <<improved>>
         /\ last' = Call("two_opt_intra_route", <<argument_after(sol[1], improved)>>,
                      <<>>, NoDraw, <<>>)
    /\ UNCHANGED <<instance, pc, runVars, mate>>

NextBench ==
    \/ BenchSolomon
    \/ BenchGreedy
    \/ BenchMate
    \/ BenchCrossover
    \/ BenchRelocate
    \/ BenchExchange
    \/ BenchTwoOpt

SpecBench == InitBench /\ [][NextBench]_vars

---------------------------------------------------------------------------
(* Notions the properties are stated in, written from their definitions    *)
(* and not from the solver's code.                                         *)

\* how often customer id is visited by solution s
Occurrences(s, id) ==
    Cardinality({<<i, k>> \in (1..Len(s.vehicles)) \X (1..Cardinality(CustomerIds)) :
                   k <= Len(s.vehicles[i].route) /\ s.vehicles[i].route[k] = id})

\* every customer of the instance exactly once, and nothing else
Conserved(s) ==
    /\ \A id \in CustomerIds : Occurrences(s, id) = 1
    /\ \A i \in 1..Len(s.vehicles) : Range(s.vehicles[i].route) \subseteq CustomerIds

NoDuplicate(s) == \A id \in CustomerIds : Occurrences(s, id) <= 1

SameCustomers(s, t) == \A id \in CustomerIds : Occurrences(s, id) = Occurrences(t, id)

\* arrival time at the k-th stop of a route that leaves the depot at 0
RECURSIVE ArrivalAt(_, _)
ArrivalAt(route, k) ==
    LET here == Cust(route[k])
        before == IF k = 1 THEN instance.depot ELSE Cust(route[k - 1])
        left == IF k = 1 THEN 0
                ELSE Max(ArrivalAt(route, k - 1), before.ready_time) + before.service_time
    IN  left + distance_to(before, here)

\* time at which the vehicle is back at the depot
ReturnAt(route) ==
    IF route = <<>> THEN 0
    ELSE LET lastc == Cust(route[Len(route)])
         IN  Max(ArrivalAt(route, Len(route)), lastc.ready_time) + lastc.service_time
             + distance_to(lastc, instance.depot)

ActualLoad(route) == SumSeq(MapSeq(LAMBDA id : Cust(id).demand, route))

OnTime(route) == \A k \in 1..Len(route) : ArrivalAt(route, k) <= Cust(route[k]).due_time

Waits(route) == \E k \in 1..Len(route) : ArrivalAt(route, k) < Cust(route[k]).ready_time

\* length of the tour depot -> route -> depot
RouteLength(route) ==
    IF route = <<>> THEN 0
    ELSE distance_to(instance.depot, Cust(route[1]))
         + SumSeq([k \in 1..(Len(route) - 1) |->
                     distance_to(Cust(route[k]), Cust(route[k + 1]))])
         + distance_to(Cust(route[Len(route)]), instance.depot)

\* penalty of a route from its contents: 1000 per unit of load over capacity
\* and per unit of time after a due_time
RoutePenalty(route) ==
    1000 * Max(0, ActualLoad(route) - instance.vehicle_capacity)
    + SumSeq([k \in 1..Len(route) |->
                1000 * Max(0, ArrivalAt(route, k) - Cust(route[k]).due_time)])

\* distance, number of vehicles, feasibility and fitness of a solution, from
\* its routes alone
Recomputed(s) ==
    LET dist == SumSeq([i \in 1..Len(s.vehicles) |-> RouteLength(s.vehicles[i].route)])
        used == Cardinality({i \in 1..Len(s.vehicles) : s.vehicles[i].route # <<>>})
        pen == SumSeq([i \in 1..Len(s.vehicles) |-> RoutePenalty(s.vehicles[i].route)])
    IN  [total_distance |-> dist, num_vehicles |-> used, feasible |-> (pen = 0),
         fitness |-> 1 * dist + 1000 * used + 100000 * pen]

\* the route check of the specification: load within capacity, every
\* arrival by the customer's due_time, back at the depot by depot.due_time
RouteFeasible(route) ==
    /\ ActualLoad(route) <= instance.vehicle_capacity
    /\ OnTime(route)
    /\ ReturnAt(route) <= instance.depot.due_time

\* every route over the instance's customers, none visited twice
AllRoutes ==
    UNION {{[i \in 1..k |-> instance.customers[b[i]].id] :
               b \in Arrangements(Len(instance.customers), k)} :
           k \in 0..Len(instance.customers)}

\* the test find_best_insertion applies to customer route[pos + 1] entering
\* the rest of the route at pos (heuristics.py, lines 125-133)
SolomonAccepts(route, pos) ==
    LET rest == [i \in 1..(Len(route) - 1) |-> IF i <= pos THEN route[i] ELSE route[i + 1]]
        customer == route[pos + 1]
    IN  /\ ActualLoad(rest) + Cust(customer).demand <= instance.vehicle_capacity
        /\ is_feasible_insertion(rest, customer, pos)

\* route a visits the customers of route b in b's order, among others
RECURSIVE KeepsOrder(_, _)
KeepsOrder(a, b) ==
    IF b = <<>> THEN TRUE
    ELSE IF a = <<>> THEN FALSE
    ELSE IF Head(a) = Head(b) THEN KeepsOrder(Tail(a), Tail(b))
    ELSE KeepsOrder(Tail(a), b)

\* the customers ask for more than the fleet holds
DemandExceedsFleet ==
    SumSeq([i \in 1..Len(instance.customers) |-> instance.customers[i].demand])
        > instance.num_vehicles * instance.vehicle_capacity

\* an instance with customers, distinct ids, windows that open before they
\* close, and a positive capacity
ValidInstance ==
    /\ Len(instance.customers) > 0
    /\ \A i, j \in 1..Len(instance.customers) :
           instance.customers[i].id = instance.customers[j].id => i = j
    /\ \A i \in 1..Len(instance.customers) :
           instance.customers[i].ready_time < instance.customers[i].due_time
    /\ instance.vehicle_capacity > 0

\* the solutions run() holds
RunSolutions == Range(population) \cup Range(best_solution)

\* the solutions the bench holds
BenchSolutions ==
    Range(sol) \cup Range(mate)
    \cup Range(last.out2)

---------------------------------------------------------------------------
(* Properties of run() (Spec)                                              *)

\* run() is between two generations, or has returned
AtBoundary == pc \in {"loop", "restart", "done"}

\* C1, as claimed: at every generation boundary of run (after
\* initialize_population, after every evolve, after every restart) every
\* solution of the population, and best_solution, holds every customer of
\* the instance exactly once, whatever the fleet size.
C1_Conservation ==
    AtBoundary => \A s \in Range(population) \cup Range(best_solution) : Conserved(s)

\* C7: the fitness of best_solution never increases, best_fitness_history
\* is non-increasing, and its first entry is no more than the fitness of any
\* solution of the initial population.
C7_MonotoneBest ==
    [][/\ (best_solution # <<>> /\ best_solution' # <<>>)
            => best_solution'[1].fitness <= best_solution[1].fitness
       /\ \A i \in 1..(Len(best_fitness_history') - 1) :
            best_fitness_history'[i + 1] <= best_fitness_history'[i]
       /\ (best_fitness_history = <<>> /\ best_fitness_history' # <<>>)
            => \A s \in Range(population) : best_fitness_history'[1] <= s.fitness]_vars

\* a run whose best improved from one generation to the next
C7_Witness ==
    /\ Len(best_fitness_history) >= 2
    /\ best_fitness_history[2] < best_fitness_history[1]
    /\ \E s \in Range(population) : s.fitness > best_solution[1].fitness

\* run() has a next step to take: the draws of the step it is at can be made
CanStep ==
    /\ pc = "run" => InitialPopulations(config.pop_size) # {}
    /\ (pc = "loop" /\ gen < config.generations)
          => NextPopulations(population, config) # {}
    /\ pc = "restart" => ReinitializedPopulations(population, config.pop_size) # {}

\* C13: run() performs exactly config.generations generation steps and then
\* returns; both histories then hold exactly that many entries, and the
\* entry a generation appends is the fitness of the global best and the mean
\* fitness of the population after that generation.  Until it returns, run()
\* always has a step to take.
C13_TerminationAndTrace ==
    /\ []CanStep
    /\ [][(best_fitness_history' # best_fitness_history
              \/ avg_fitness_history' # avg_fitness_history \/ gen' # gen) =>
              /\ gen' = gen + 1 /\ gen' <= config.generations
              /\ Len(best_fitness_history') = gen' /\ Len(avg_fitness_history') = gen'
              /\ SubSeq(best_fitness_history', 1, gen) = best_fitness_history
              /\ SubSeq(avg_fitness_history', 1, gen) = avg_fitness_history
              /\ best_fitness_history'[gen'] = best_solution'[1].fitness
              /\ \A t \in Range(population') : best_fitness_history'[gen'] <= t.fitness
              /\ avg_fitness_history'[gen'][1] * Len(population')
                    = avg_fitness_history'[gen'][2]
                        * SumSeq([i \in 1..Len(population') |-> population'[i].fitness])
              /\ avg_fitness_history'[gen'][2] > 0]_vars
    /\ <>[](/\ pc = "done"
            /\ gen = config.generations
            /\ Len(best_fitness_history) = config.generations
            /\ Len(avg_fitness_history) = config.generations)

\* run() has returned after a run long enough to go through a restart
C13_Witness ==
    /\ pc = "done"
    /\ config.generations = LongRun
    /\ Len(best_fitness_history) = LongRun
    /\ Len(avg_fitness_history) = LongRun

\* C14, as claimed: at every generation boundary of run (after
\* initialize_population, after each evolve, after each restart) the
\* population holds exactly pop_size solutions.
C14_FixedPopulationSize == AtBoundary => Len(population) = config.pop_size

---------------------------------------------------------------------------
(* Properties of the operators (SpecBench)                                 *)

\* C2: no customer id appears more than once across the routes of any
\* solution produced by the constructors, crossover, relocate, exchange or
\* 2-opt, applied in any sequence starting from constructed solutions.
C2_NoDuplication == \A s \in BenchSolutions : NoDuplicate(s)

\* a relocate that moved a customer into a route that already held others
C2_Witness ==
    /\ last.op = "relocate_mutation" /\ last.draw.kind = "relocate"
    /\ Len(sol[1].vehicles[last.draw.v_to].route) >= 2

\* C3: both children of best_route_crossover hold every customer of the
\* instance exactly once, for parents that miss customers too.
C3_CrossoverConservation ==
    last.op = "best_route_crossover" => Conserved(sol[1]) /\ Conserved(last.out2[1])

\* a crossover one of whose parents missed a customer
C3_Witness ==
    /\ last.op = "best_route_crossover"
    /\ \E id \in CustomerIds : /\ Occurrences(last.input[1], id) = 0
                                /\ Occurrences(last.input2[1], id) = 1

\* C4: relocate_mutation and exchange_mutation return a solution with the
\* same multiset of routed customer ids as their input, applied or not.
C4_MutationKeepsCustomers ==
    last.op \in {"relocate_mutation", "exchange_mutation"}
        => SameCustomers(sol[1], last.input[1])

\* a relocate whose customer did not fit in the destination vehicle
C4_Witness ==
    /\ last.op = "relocate_mutation" /\ last.draw.kind = "relocate"
    /\ ActualLoad(sol[1].vehicles[last.draw.v_to].route) > instance.vehicle_capacity
    /\ ActualLoad(last.input[1].vehicles[last.draw.v_to].route) <= instance.vehicle_capacity

\* C5, as claimed: when the chosen customer does not fit in the destination
\* vehicle relocate_mutation is a no-op (same routes, loads and fitness), and
\* the destination's load never exceeds capacity unless it did before.
C5_RelocateRespectsCapacity ==
    (last.op = "relocate_mutation" /\ last.draw.kind = "relocate") =>
        LET before == last.input[1].vehicles[last.draw.v_to]
            moved == last.input[1].vehicles[last.draw.v_from].route[last.draw.remove_idx + 1]
            after == sol[1].vehicles[last.draw.v_to]
        IN  /\ ActualLoad(before.route) + Cust(moved).demand > instance.vehicle_capacity
                => /\ sol[1].vehicles = last.input[1].vehicles
                   /\ sol[1].fitness = last.input[1].fitness
            /\ ActualLoad(before.route) <= instance.vehicle_capacity
                => ActualLoad(after.route) <= instance.vehicle_capacity

\* C6: exchange_mutation swaps the two chosen customers if and only if both
\* resulting loads are <= capacity; otherwise the result has exactly the
\* input's routes, loads, distances and fitness.
C6_ExchangeIffFits ==
    (last.op = "exchange_mutation" /\ last.draw.kind = "exchange") =>
        LET d == last.draw
            r1 == last.input[1].vehicles[d.v1].route
            r2 == last.input[1].vehicles[d.v2].route
            c1 == r1[d.idx1 + 1]
            c2 == r2[d.idx2 + 1]
            fits == /\ ActualLoad(r1) - Cust(c1).demand + Cust(c2).demand
                         <= instance.vehicle_capacity
                    /\ ActualLoad(r2) - Cust(c2).demand + Cust(c1).demand
                         <= instance.vehicle_capacity
            swapped == /\ sol[1].vehicles[d.v1].route = [r1 EXCEPT ![d.idx1 + 1] = c2]
                       /\ sol[1].vehicles[d.v2].route = [r2 EXCEPT ![d.idx2 + 1] = c1]
                       /\ Len(sol[1].vehicles) = Len(last.input[1].vehicles)
                       /\ \A i \in 1..Len(sol[1].vehicles) :
                            i \notin {d.v1, d.v2}
                                => sol[1].vehicles[i] = last.input[1].vehicles[i]
        IN  /\ fits <=> swapped
            /\ ~fits => sol[1] = last.input[1]

\* an exchange that was refused
C6_Witness ==
    /\ last.op = "exchange_mutation" /\ last.draw.kind = "exchange"
    /\ sol[1] = last.input[1]
    /\ Cust(last.input[1].vehicles[last.draw.v1].route[last.draw.idx1 + 1]).demand
         # Cust(last.input[1].vehicles[last.draw.v2].route[last.draw.idx2 + 1]).demand

\* C9: for every solution of the population and for best_solution (and for
\* every solution an operator hands back), feasible is true exactly when the
\* penalty is zero, that is when every route's actual load is within capacity
\* and every arrival is no later than the customer's due_time; waiting for
\* ready_time costs nothing.
C9_FeasibleFlag ==
    \A s \in RunSolutions \cup BenchSolutions :
        /\ s.feasible <=> \A i \in 1..Len(s.vehicles) :
                             /\ ActualLoad(s.vehicles[i].route) <= instance.vehicle_capacity
                             /\ OnTime(s.vehicles[i].route)
        /\ s.feasible <=> s.fitness = s.total_distance + 1000 * s.num_vehicles

\* a mutation produced a solution flagged feasible one of whose vehicles
\* waited
C9_Witness ==
    /\ last.op \in {"relocate_mutation", "exchange_mutation"}
    /\ sol[1] # last.input[1]
    /\ sol[1].feasible
    /\ \E i \in 1..Len(sol[1].vehicles) : Waits(sol[1].vehicles[i].route)

\* C10, as claimed: in a solution flagged feasible every route is back at
\* the depot no later than depot.due_time.
C10_FeasibleReturnsInTime ==
    \A s \in BenchSolutions :
        s.feasible => \A i \in 1..Len(s.vehicles) :
                         ReturnAt(s.vehicles[i].route) <= instance.depot.due_time

\* C11: for every solution of the population and for best_solution (and for
\* every solution an operator hands back), the cached fitness,
\* total_distance, num_vehicles and feasible are exactly what a recomputation
\* from the routes alone gives.
C11_FitnessCache ==
    \A s \in RunSolutions \cup BenchSolutions :
        LET r == Recomputed(s)
        IN  /\ s.fitness = r.fitness
            /\ s.total_distance = r.total_distance
            /\ s.num_vehicles = r.num_vehicles
            /\ s.feasible = r.feasible

\* an exchange was applied and changed the distance of the solution
C11_Witness ==
    /\ last.op = "exchange_mutation" /\ last.draw.kind = "exchange"
    /\ sol[1].vehicles # last.input[1].vehicles
    /\ sol[1].total_distance # last.input[1].total_distance

\* C12, as claimed: two_opt_intra_route returns a solution each of whose
\* routes is no longer than the same route of the input, and every route
\* that was feasible (capacity, arrivals, return to the depot) in the input
\* is feasible in the output.
C12_TwoOptImproves ==
    last.op = "two_opt_intra_route" =>
        /\ Len(sol[1].vehicles) = Len(last.input[1].vehicles)
        /\ \A i \in 1..Len(last.input[1].vehicles) :
              /\ RouteLength(sol[1].vehicles[i].route)
                    <= RouteLength(last.input[1].vehicles[i].route)
              /\ RouteFeasible(last.input[1].vehicles[i].route)
                    => RouteFeasible(sol[1].vehicles[i].route)

\* C15, as claimed: on an instance whose total demand exceeds
\* num_vehicles * vehicle_capacity, construct_solution ends with at least
\* one customer unrouted.
C15_InfeasibleDemandUnrouted ==
    (last.op = "construct_solution" /\ DemandExceedsFleet) =>
        /\ Len(solomon_unrouted(last.draw.alpha, last.draw.mu, last.draw.lambda_param)) > 0
        /\ \E id \in CustomerIds : Occurrences(sol[1], id) = 0

\* C16, as claimed: on an instance whose total demand exceeds
\* num_vehicles * vehicle_capacity, the best solution run() returns has
\* feasible = FALSE, whatever the number of generations.
C16_InfeasibleDemandBest ==
    (pc = "done" /\ DemandExceedsFleet) =>
        \A b \in Range(best_solution) : ~b.feasible

\* C17, as claimed: an instance with no customers, a repeated id, a window
\* with ready_time >= due_time or a capacity <= 0 is refused before any
\* solver work, so no operator ever acts on one.
C17_InstanceValidated ==
    last.op # "none" => ValidInstance

\* C18, as claimed: on an instance with exactly one customer c1 and at
\* least one vehicle, construct_solution returns exactly one route <<c1>>,
\* and the best solution run() returns has <<c1>> as its only non-empty
\* route.
C18_SingleCustomer ==
    (Len(instance.customers) = 1 /\ instance.num_vehicles >= 1) =>
        LET c1 == instance.customers[1].id
        IN  /\ \A a \in AlphaMuValues, m \in AlphaMuValues, l \in LambdaValues :
                   MapSeq(LAMBDA v : v.route, construct_solution(a, m, l)) = <<(<<c1>>)>>
            /\ pc = "done" =>
                   \A b \in Range(best_solution) :
                       MapSeq(LAMBDA i : b.vehicles[i].route, vehicles_with_routes(b)) = <<(<<c1>>)>>

\* C19, as claimed: every route check of the solver refuses a route that
\* is overloaded, reaches a customer after its due_time, or is back at the
\* depot after depot.due_time: both _is_route_feasible (used by the
\* crossover's insertion and by 2-opt) and the insertion test of Solomon.
C19_KernelRejectsLateReturn ==
    last.op \in {"construct_solution", "best_route_crossover", "two_opt_intra_route"} =>
        \A route \in AllRoutes :
            ~RouteFeasible(route) =>
                /\ ~is_route_feasible(route, instance.vehicle_capacity)
                /\ \A pos \in 0..(Len(route) - 1) : ~SolomonAccepts(route, pos)

\* C20, as claimed: best_route_crossover copies max(1, k1 \div 3) whole
\* routes of parent1 into child1 and max(1, k2 \div 3) whole routes of
\* parent2 into child2, k1 and k2 being the numbers of non-empty routes of
\* parent1 and parent2; each copied route is a route of the child, its
\* customers in the same order.  Parents without any route are left aside.
C20_CrossoverRouteCount ==
    (/\ last.op = "best_route_crossover"
     /\ NonEmptyCount(last.input[1].vehicles) > 0
     /\ NonEmptyCount(last.input2[1].vehicles) > 0) =>
        LET parent1 == last.input[1]
            parent2 == last.input2[1]
            selected == last.draw.selected
            copied(parent, child, sel) ==
                \A k \in 1..Len(sel) :
                    /\ k <= Len(child.vehicles)
                    /\ KeepsOrder(child.vehicles[k].route,
                                  parent.vehicles[vehicles_with_routes(parent)[sel[k]]].route)
        IN  /\ Len(selected[1]) = Max(1, NonEmptyCount(parent1.vehicles) \div 3)
            /\ Len(selected[2]) = Max(1, NonEmptyCount(parent2.vehicles) \div 3)
            /\ \E child1 \in Range(sol) \cup Range(last.out2) :
                   child1 = crossover_child(parent1, selected[1])
                   /\ copied(parent1, child1, selected[1])
            /\ \E child2 \in Range(sol) \cup Range(last.out2) :
                   child2 = crossover_child(parent2, selected[2])
                   /\ copied(parent2, child2, selected[2])

\* C21: the stagnation counter is 0 after a generation whose population
\* minimum is strictly below the global best, and one more than before after
\* any other generation; run() restarts exactly when a generation brings the
\* counter to max_stagnation, which takes max_stagnation generations in a row
\* that leave the best as it was; the restart sets the counter to 0; the
\* counter stays within 0..max_stagnation.
C21_StagnationProtocol ==
    /\ [](stagnation_counter \in 0..max_stagnation)
    /\ []((pc = "restart") <=> (stagnation_counter = max_stagnation))
    /\ [](pc = "restart" =>
            /\ gen >= max_stagnation
            /\ \A k \in (gen - max_stagnation + 1)..gen :
                   best_fitness_history[k] = best_solution[1].fitness)
    /\ [][/\ pc = "run" => stagnation_counter' = 0
          /\ gen' = gen + 1 =>
                stagnation_counter' =
                    IF MinByFitness(population').fitness < best_solution[1].fitness
                    THEN 0 ELSE stagnation_counter + 1
          /\ pc = "restart" => (stagnation_counter' = 0 /\ pc' = "loop" /\ gen' = gen)]_vars

\* run() has just restarted after max_stagnation generations
C21_Witness ==
    /\ pc = "loop"
    /\ gen = max_stagnation
    /\ stagnation_counter = 0
    /\ population # <<>>
    /\ Len(best_fitness_history) = max_stagnation

\* C22, as claimed: a restart leaves the pop_size \div 2 solutions of lowest
\* fitness of the population it found, followed by pop_size - pop_size \div 2
\* new solutions (mutated clones of the retained ones or greedy
\* constructions), and nothing else.
C22_RestartRetention ==
    [][pc = "restart" =>
         LET sorted == SortByFitness(population)
             keep == config.pop_size \div 2
             fresh == UNION {HeavyMutations(sorted[b]) : b \in 1..keep} \cup GreedySolutions
         IN  /\ Len(population') = config.pop_size
             /\ SubSeq(population', 1, keep) = SubSeq(sorted, 1, keep)
             /\ \A i \in (keep + 1)..Len(population') : population'[i] \in fresh]_vars

\* how often solution v stands in the list
CountIn(list, v) == Cardinality({i \in 1..Len(list) : list[i] = v})

\* the places of the pool that hold its n solutions of lowest fitness, a
\* tie going to the earlier place
LowestPlaces(pool, n) ==
    {i \in 1..Len(pool) :
        Cardinality({j \in 1..Len(pool) :
                        \/ pool[j].fitness < pool[i].fitness
                        \/ pool[j].fitness = pool[i].fitness /\ j < i}) < n}

\* next keeps the elite of the pool and takes no pool member twice
Elitist(pool, next, elite_size) ==
    /\ \A v \in Range(next) : CountIn(next, v) <= CountIn(pool, v)
    /\ \A i \in LowestPlaces(pool, elite_size) :
           CountIn(next, pool[i])
               >= Cardinality({j \in LowestPlaces(pool, elite_size) : pool[j] = pool[i]})

\* C23: in every generation step with elite_size <= pop_size, the
\* elite_size solutions of lowest fitness of the pool (population, then
\* offspring; ties by place in the pool) are all in the next population, and
\* the next population is drawn from the pool, no pool member twice.
C23_Elitism ==
    [][(gen' = gen + 1 /\ config.elite_size <= config.pop_size) =>
         \E offspring \in Offspring(population, config) :
             Elitist(population \o offspring, population', config.elite_size)]_vars

\* a generation whose elite leaves a more expensive solution behind it
C23_Witness ==
    /\ gen > 0
    /\ config.elite_size < config.pop_size
    /\ config.elite_size > 0
    /\ \E i \in 1..Len(population) :
           population[i].fitness > population[config.elite_size].fitness

\* C24, as claimed: in every generation step the pop_size selected parents
\* give exactly pop_size children, and the pool sorted for survivor
\* selection holds exactly 2 * pop_size solutions, for odd and even pop_size
\* and in the generation that follows a restart.
C24_PoolSize ==
    [][gen' = gen + 1 =>
         \A offspring \in Offspring(population, config) :
             /\ Len(offspring) = config.pop_size
             /\ Len(population \o offspring) = 2 * config.pop_size]_vars

\* the customers still unrouted when construct_solution opens vehicle k of
\* the solution it returned, in the order of the instance's list
UnroutedAt(s, k) ==
    SelectSeq(InstanceIds,
              LAMBDA id : \A j \in 1..(k - 1) : id \notin Range(s.vehicles[j].route))

\* the customer of smallest id among the farthest from the depot
FarthestSmallestId(ids) ==
    CHOOSE id \in ids :
        /\ \A o \in ids : distance_to(instance.depot, Cust(o))
                               <= distance_to(instance.depot, Cust(id))
        /\ \A o \in ids : distance_to(instance.depot, Cust(o))
                               = distance_to(instance.depot, Cust(id)) => id <= o

\* C25, as claimed: each time construct_solution opens a vehicle, the seed
\* is the unrouted customer farthest from the depot, the smallest id among
\* several at that distance, whatever the order of the customer list; the
\* seed is in the route of that vehicle.
C25_SolomonSeed ==
    last.op = "construct_solution" =>
        \A k \in 1..Len(sol[1].vehicles) :
            LET unrouted == UnroutedAt(sol[1], k)
            IN  /\ unrouted # <<>>
                /\ seed_customer(unrouted) = FarthestSmallestId(Range(unrouted))
                /\ FarthestSmallestId(Range(unrouted)) \in Range(sol[1].vehicles[k].route)

\* the (customer, position) pairs the specification lets a step choose from
FeasiblePairs(route, unrouted) ==
    {q \in Range(unrouted) \X (0..Len(route)) :
        /\ ActualLoad(route) + Cust(q[1]).demand <= instance.vehicle_capacity
        /\ OnTime(InsertAt(route, q[2], q[1]))
        /\ ReturnAt(InsertAt(route, q[2], q[1])) <= instance.depot.due_time}

\* C26: after the seed, each step of construct_solution inserts a pair
\* (customer, position) of minimal cost alpha * c1 + lambda * c2 among the
\* pairs that fit the capacity and pass the temporal check; the vehicle is
\* closed only when there is no such pair; at most num_vehicles vehicles are
\* opened.
C26_SolomonInsertionStep ==
    last.op = "construct_solution" =>
        LET alpha == last.draw.alpha
            mu == last.draw.mu
            lambda_param == last.draw.lambda_param
        IN  /\ Len(sol[1].vehicles) <= instance.num_vehicles
            /\ \A st \in SolomonSteps(InstanceIds, 0, alpha, mu, lambda_param) :
                   LET pairs == FeasiblePairs(st.v.route, st.unrouted)
                       best == BestCustomerFrom(st.v, st.unrouted,
                                  [customer |-> 0, position |-> -1, cost |-> 0, found |-> FALSE],
                                  alpha, mu, lambda_param)
                   IN  /\ best.found <=> pairs # {}
                       /\ best.found =>
                              /\ <<best.customer, best.position>> \in pairs
                              /\ \A q \in pairs :
                                     solomon_insertion_cost(st.v.route, best.customer,
                                                            best.position, alpha, mu, lambda_param)
                                         <= solomon_insertion_cost(st.v.route, q[1], q[2],
                                                                   alpha, mu, lambda_param)

\* a construction with a step that had pairs of different cost to choose
\* from, and a pair within capacity that the temporal check excludes
C26_Witness ==
    /\ last.op = "construct_solution"
    /\ \E st \in SolomonSteps(InstanceIds, 0, last.draw.alpha, last.draw.mu,
                               last.draw.lambda_param) :
           /\ \E q, r \in FeasiblePairs(st.v.route, st.unrouted) :
                  solomon_insertion_cost(st.v.route, q[1], q[2], last.draw.alpha,
                                         last.draw.mu, last.draw.lambda_param)
                      < solomon_insertion_cost(st.v.route, r[1], r[2], last.draw.alpha,
                                               last.draw.mu, last.draw.lambda_param)
           /\ \E u \in Range(st.unrouted), p \in 0..Len(st.v.route) :
                  /\ <<u, p>> \notin FeasiblePairs(st.v.route, st.unrouted)
                  /\ ActualLoad(st.v.route) + Cust(u).demand <= instance.vehicle_capacity

\* the (vehicle, position) places where the customer fits the capacity and
\* every customer of the route is reached by its due_time
FeasiblePlaces(vehicles, customer) ==
    {q \in (1..Len(vehicles)) \X (0..Cardinality(CustomerIds)) :
        /\ q[2] <= Len(vehicles[q[1]].route)
        /\ ActualLoad(vehicles[q[1]].route) + Cust(customer).demand
               <= instance.vehicle_capacity
        /\ OnTime(InsertAt(vehicles[q[1]].route, q[2], customer))}

\* d(i, u) + d(u, j) - d(i, j) of place q
Delta(vehicles, customer, q) ==
    RouteLength(InsertAt(vehicles[q[1]].route, q[2], customer))
        - RouteLength(vehicles[q[1]].route)

\* one pass of the insertion puts the customer where the claim says
CheapestFeasible(st) ==
    LET places == FeasiblePlaces(st.vehicles, st.customer)
        routes(vs) == [i \in 1..Len(vs) |-> vs[i].route]
    IN  IF places = {}
        THEN routes(st.after) = Append(routes(st.vehicles), <<st.customer>>)
        ELSE \E q \in places :
                /\ \A r \in places :
                       \/ Delta(st.vehicles, st.customer, q) < Delta(st.vehicles, st.customer, r)
                       \/ /\ Delta(st.vehicles, st.customer, q) = Delta(st.vehicles, st.customer, r)
                          /\ (q[1] < r[1] \/ (q[1] = r[1] /\ q[2] <= r[2]))
                /\ routes(st.after) =
                       [routes(st.vehicles) EXCEPT
                          ![q[1]] = InsertAt(st.vehicles[q[1]].route, q[2], st.customer)]
                /\ ActualLoad(st.after[q[1]].route) <= instance.vehicle_capacity

C29_SolomonRoutesFeasible ==
    last.op = "construct_solution" =>
        \A i \in 1..Len(sol[1].vehicles) :
            LET v == sol[1].vehicles[i]
            IN  /\ v.load = ActualLoad(v.route)
                /\ Len(v.route) >= 2 => RouteFeasible(v.route)
                /\ ~RouteFeasible(v.route) => Len(v.route) = 1

\* construct_solution returned a route of several customers next to a
\* seed-only route that breaks the route check
C29_Witness ==
    /\ last.op = "construct_solution"
    /\ \E i, j \in 1..Len(sol[1].vehicles) :
           /\ Len(sol[1].vehicles[i].route) >= 2
           /\ Len(sol[1].vehicles[j].route) = 1
           /\ ~RouteFeasible(sol[1].vehicles[j].route)

\* C30, as claimed: with 1 <= elite_size <= pop_size, after
\* initialize_population and after every pass of the loop of run (evolve,
\* and the restart when it is due) the lowest fitness of the population is
\* best_solution.fitness, and the lowest fitness of the population never
\* rises from one generation to the next, restarts included.
C30_BestInPopulation ==
    /\ []((pc \in {"loop", "done"} /\ population # <<>>
            /\ 1 <= config.elite_size /\ config.elite_size <= config.pop_size)
           => MinByFitness(population).fitness = best_solution[1].fitness)
    /\ [][(population # <<>> /\ population' # <<>>
           /\ 1 <= config.elite_size /\ config.elite_size <= config.pop_size)
          => MinByFitness(population').fitness <= MinByFitness(population).fitness]_vars
===========================================================================
